---- MODULE Spec2Model ----
\* Session model of main.py: a Streamlit page that caches a leaf image
\* (uploaded or captured), sends it with a fixed prompt to a generative
\* model, and offers a reset button and a chat box.  Every user event
\* re-executes the script from top to bottom against the session state and
\* the widget values held by the browser.
EXTENDS Integers, Sequences, FiniteSets, TLC

\* ---------------------------------------------------------------- bounds
MaxKey == 2                      \* cap on uploader_key (number of resets)

\* ---------------------------------------------------------------- data
None == "None"
Files == {"leaf.png", "cmyk.jpg", "bad.png"}   \* files the user can select
Photos == {"photo.jpg"}                        \* camera captures
ResponseTexts == {"Plant: Tomato; Disease: Blight", "Plant: Rice; Healthy"}
ErrorTexts == {"quota exceeded"}
Questions == {"How to treat blight?"}
Answers == {"Use copper fungicide"}

\* st.selectbox options and default index (index=0, 0-based in the source)
LanguageOptions == <<"English", "Telugu", "Hindi", "Tamil">>
LanguageIndex == 0

\* PIL.Image.open: fails on bytes that are no image, else yields the bitmap
Decodable(f) == f # "bad.png"
ImageOpen(f) ==
  CASE f = "leaf.png" -> "rgb:leaf"
    [] f = "cmyk.jpg" -> "cmyk:leaf"
    [] f = "photo.jpg" -> "rgb:photo"
    [] OTHER -> None

\* Image.save(format="PNG"): PNG cannot hold a CMYK bitmap (raises)
CanSavePNG(img) == img # "cmyk:leaf"
PngBytes(img) == <<"PNG", img>>

\* ---------------------------------------------------------------- state
VARIABLES
  theme, uploaded_image, analysis_result, camera_active, uploader_key,
  reset_triggered,             \* st.session_state
  language,                    \* selectbox widget value ("unset" = untouched)
  uploader,                    \* file_uploader widget: [key, file]
  query,                       \* text_input widget value
  page,                        \* what the last page run rendered
  calls,                       \* outbound calls made by the last page run
  event,                       \* the user event that caused the last run
  prev,                        \* session state before the last event
  reset_processed,             \* the last run executed the reset block
  stale_file                   \* "-", or what the uploader held at the last
                               \* reset while no upload/capture followed it

vars == <<theme, uploaded_image, analysis_result, camera_active, uploader_key,
          reset_triggered, language, uploader, query, page, calls, event,
          prev, reset_processed, stale_file>>

\* ------------------------------------------------- session state (14-73)
SessionDefaults ==
  [theme |-> "light", uploaded_image |-> None, analysis_result |-> "",
   camera_active |-> FALSE, uploader_key |-> 0, reset_triggered |-> FALSE]

\* `if "k" not in st.session_state: st.session_state.k = default`
InitSession(ss) ==
  [k \in DOMAIN SessionDefaults |->
     IF k \in DOMAIN ss THEN ss[k] ELSE SessionDefaults[k]]

\* sidebar toggle: the widget's default is the stored theme, a click flips it
ThemeSwitch(ss, toggled) ==
  LET dark_toggle == IF toggled THEN ss.theme # "dark" ELSE ss.theme = "dark"
  IN [ss EXCEPT !.theme = IF dark_toggle THEN "dark" ELSE "light"]

\* value returned by the selectbox
Selected(sel) == IF sel = "unset" THEN LanguageOptions[LanguageIndex + 1] ELSE sel

\* value returned by the file_uploader registered under key uploader_<k>
UploadedFile(w, k) == IF w.key = k THEN w.file ELSE None

\* ------------------------------------------------- image input (101-115)
\* Take Photo button, camera_input and the uploader's file.  `capture` is the
\* camera widget's value (None when nothing was captured).  Image.open is
\* outside any try block: an undecodable file raises out of the script.
ImageInput(ss, uploaded_file, take_photo, capture) ==
  LET s1 == IF take_photo
              THEN [ss EXCEPT !.camera_active = ~ss.camera_active] ELSE ss
      shown == s1.camera_active
      camera_input == IF shown THEN capture ELSE None
      s2 == IF camera_input # None
              THEN [s1 EXCEPT !.uploaded_image = ImageOpen(camera_input),
                              !.camera_active = FALSE]
              ELSE s1
      file == IF camera_input # None THEN None ELSE uploaded_file
  IN IF file # None /\ ~Decodable(file)
       THEN [ss |-> s2, raised |-> TRUE, camera_shown |-> shown]
       ELSE [ss |-> IF file # None
                      THEN [s2 EXCEPT !.uploaded_image = ImageOpen(file)]
                      ELSE s2,
             raised |-> FALSE, camera_shown |-> shown]

\* ------------------------------------------------- prompt (129-144)
Fixed(t) == [kind |-> "fixed", arg |-> t]
Directive(l) == [kind |-> "directive", arg |-> l]

Prompt_EnglishOnly(lang) ==
  <<Fixed("You are an expert agricultural AI assistant."),
    Fixed("Analyze the given leaf image and identify:"),
    Fixed("1. The plant name"), Fixed("2. Disease Name"),
    Fixed("3. Cause/Pathogen"), Fixed("4. Symptoms"),
    Fixed("5. Severity Level (Low/Medium/High)"), Fixed("6. Precautions"),
    Fixed("7. Treatments (organic & chemical)"),
    Fixed("8. Impact on yield or quality"),
    Fixed("9. Future preventive measures"),
    Fixed("Format the response in a structured and visually clear way."),
    Directive("English")>>

Prompt(lang) ==
  <<Fixed("You are an expert agricultural AI assistant."),
    Fixed("Analyze the given leaf image and identify:"),
    Fixed("1. The plant name"), Fixed("2. Disease Name"),
    Fixed("3. Cause/Pathogen"), Fixed("4. Symptoms"),
    Fixed("5. Severity Level (Low/Medium/High)"), Fixed("6. Precautions"),
    Fixed("7. Treatments (organic & chemical)"),
    Fixed("8. Impact on yield or quality"),
    Fixed("9. Future preventive measures"),
    Fixed("Format the response in a structured and visually clear way."),
    Directive(lang)>>

\* ------------------------------------------------- report widgets (152-161)
NoDownload == [data |-> "", file_name |-> "", mime |-> ""]

\* line 152: st.session_state.analysis_result = response.text
StoreResult_Skip(ss, text) == ss

StoreResult(ss, text) == [ss EXCEPT !.analysis_result = text]

\* lines 153-161, rendered from the stored analysis_result
ReportWidgets(stored) ==
  [report |-> <<"<div class='main-card'>", stored, "</div>">>,
   download |-> [data |-> stored,
                 file_name |-> "plant_disease_analysis.txt",
                 mime |-> "text/plain"]]

\* ------------------------------------------------- analysis (118-174)
\* outcome = what model.generate_content / response.text does this time
Outcomes ==
  [ok : {TRUE}, text : ResponseTexts] \cup [ok : {FALSE}, text : ErrorTexts]

Quiet(ss) ==
  [ss |-> ss, calls |-> <<>>, report_shown |-> FALSE, report |-> <<>>,
   download |-> NoDownload, error |-> <<>>]

AnalysisBlock(ss, lang, analyze_btn, outcome) ==
  IF ss.uploaded_image = None \/ ~analyze_btn THEN Quiet(ss)
  ELSE IF ~CanSavePNG(ss.uploaded_image)
    THEN [Quiet(ss) EXCEPT
            !.error = <<"Error: ", "cannot write mode CMYK as PNG">>]
  ELSE
    LET call == [kind |-> "analysis", prompt |-> Prompt(lang),
                 mime_type |-> "image/png",
                 data |-> PngBytes(ss.uploaded_image), response |-> outcome]
    IN IF outcome.ok
         THEN LET s1 == StoreResult(ss, outcome.text)
                  w == ReportWidgets(s1.analysis_result)
              IN [ss |-> s1, calls |-> <<call>>, report_shown |-> TRUE,
                  report |-> w.report, download |-> w.download,
                  error |-> <<>>]
         ELSE [Quiet(ss) EXCEPT !.calls = <<call>>,
                                !.error = <<"Error: ", outcome.text>>]

\* ------------------------------------------------- reset (179-193)
\* on_click callback of the Reset button
trigger_reset(ss) == [ss EXCEPT !.reset_triggered = TRUE]

ResetBlock_KeepCamera(ss) ==
  [uploader_key |-> ss.uploader_key + 1, camera_active |-> ss.camera_active]

ResetBlock_KeepAnalysis(ss) ==
  [uploader_key |-> ss.uploader_key + 1,
   analysis_result |-> ss.analysis_result]

ResetBlock_SameKey(ss) == [uploader_key |-> ss.uploader_key]

\* delete every key, then store the incremented uploader_key; st.rerun follows
ResetBlock(ss) == [uploader_key |-> ss.uploader_key + 1]

\* ------------------------------------------------- chat (199-207)
ChatOutcomes ==
  [ok : {TRUE}, text : Answers] \cup [ok : {FALSE}, text : ErrorTexts]

ChatBlock(q, outcome) ==
  IF q = "" THEN [calls |-> <<>>, answer |-> <<>>, error |-> <<>>]
  ELSE [calls |-> <<[kind |-> "chat", text |-> q, response |-> outcome]>>,
        answer |-> IF outcome.ok THEN <<"AI Agribot: ", outcome.text>> ELSE <<>>,
        error |-> IF outcome.ok THEN <<>>
                  ELSE <<"Chatbot error: ", outcome.text>>]

\* ------------------------------------------------- one script pass (1-218)
\* in = [toggled, language, uploader, take_photo, capture, analyze_btn,
\*       outcome, query, chat]
BlankPage ==
  [exception |-> FALSE, camera_shown |-> FALSE, analyze_btn |-> FALSE,
   report_shown |-> FALSE, report |-> <<>>, download |-> NoDownload,
   error |-> <<>>, reset_btn |-> FALSE, chat_box |-> FALSE,
   chat_answer |-> <<>>, chat_error |-> <<>>]

\* the element of a one-element set
The(S) == CHOOSE x \in S : TRUE

\* lines 176-207, after the analysis block returned `an`
AfterAnalysis(img, an, in) ==
  LET shown == [BlankPage EXCEPT
                  !.camera_shown = img.camera_shown,
                  !.analyze_btn = (img.ss.uploaded_image # None),
                  !.report_shown = an.report_shown, !.report = an.report,
                  !.download = an.download, !.error = an.error,
                  !.reset_btn = TRUE]
  IN IF an.ss.reset_triggered
       THEN [ss |-> ResetBlock(an.ss), status |-> "rerun",
             calls |-> an.calls, page |-> shown]
       ELSE The({[ss |-> an.ss, status |-> "done",
                  calls |-> an.calls \o ch.calls,
                  page |-> [shown EXCEPT !.chat_box = TRUE,
                                         !.chat_answer = ch.answer,
                                         !.chat_error = ch.error]] :
                 ch \in {ChatBlock(in.query, in.chat)}})

\* lines 117-207, after lines 101-115 returned `img`
AfterImageInput(img, in) ==
  IF img.raised
    THEN [ss |-> img.ss, status |-> "exception", calls |-> <<>>,
          page |-> [BlankPage EXCEPT !.exception = TRUE,
                                     !.camera_shown = img.camera_shown]]
    ELSE The({AfterAnalysis(img, an, in) :
              an \in {AnalysisBlock(img.ss, Selected(in.language),
                                    in.analyze_btn, in.outcome)}})

ScriptPass(ss0, in) ==
  The({AfterImageInput(img, in) :
       img \in {ImageInput(s1, UploadedFile(in.uploader, s1.uploader_key),
                           in.take_photo, in.capture) :
                s1 \in {ThemeSwitch(InitSession(ss0), in.toggled)}}})

\* A page run: the script pass caused by the event and, after st.rerun, one
\* more pass with no button pressed.  A widget that a pass did not reach
\* (the text_input after an exception or a rerun) may or may not keep its
\* value: `kept` chooses.
AfterPass(p1, in, kept) ==
  LET q2 == IF kept THEN in.query ELSE ""
  IN CASE p1.status = "rerun" ->
            The({[ss |-> p2.ss, status |-> p2.status,
                  calls |-> p1.calls \o p2.calls, page |-> p2.page,
                  query |-> q2, reset_processed |-> TRUE] :
                 p2 \in {ScriptPass(p1.ss,
                           [in EXCEPT !.toggled = FALSE, !.take_photo = FALSE,
                                      !.capture = None, !.analyze_btn = FALSE,
                                      !.query = q2])}})
       [] p1.status = "exception" ->
            [ss |-> p1.ss, status |-> p1.status, calls |-> p1.calls,
             page |-> p1.page, query |-> q2, reset_processed |-> FALSE]
       [] OTHER ->
            [ss |-> p1.ss, status |-> p1.status, calls |-> p1.calls,
             page |-> p1.page, query |-> in.query, reset_processed |-> FALSE]

PageRun(ss, in, kept) ==
  The({AfterPass(p1, in, kept) : p1 \in {ScriptPass(ss, in)}})

\* ------------------------------------------------- events
Session ==
  [theme |-> theme, uploaded_image |-> uploaded_image,
   analysis_result |-> analysis_result, camera_active |-> camera_active,
   uploader_key |-> uploader_key, reset_triggered |-> reset_triggered]

NoInput ==
  [toggled |-> FALSE, language |-> language, uploader |-> uploader,
   take_photo |-> FALSE, capture |-> None, analyze_btn |-> FALSE,
   outcome |-> [ok |-> FALSE, text |-> "quota exceeded"], query |-> query,
   chat |-> [ok |-> FALSE, text |-> "quota exceeded"]]

\* the page runs the browser's widget values `in` can produce on session `ss`
Runs(ss, in) ==
  {PageRun(ss, [in EXCEPT !.chat = chat], kept) :
     kept \in IF in.query = "" THEN {TRUE} ELSE BOOLEAN,
     chat \in IF in.query = "" THEN {NoInput.chat} ELSE ChatOutcomes}

\* the session state, widget values and page left behind by page run r
Commit(ev, in, r) ==
  /\ theme' = r.ss.theme
  /\ uploaded_image' = r.ss.uploaded_image
  /\ analysis_result' = r.ss.analysis_result
  /\ camera_active' = r.ss.camera_active
  /\ uploader_key' = r.ss.uploader_key
  /\ reset_triggered' = r.ss.reset_triggered
  /\ language' = in.language
  /\ uploader' = [key |-> r.ss.uploader_key,
                  file |-> UploadedFile(in.uploader, r.ss.uploader_key)]
  /\ query' = r.query
  /\ page' = r.page
  /\ calls' = r.calls
  /\ event' = ev
  /\ prev' = [uploaded_image |-> uploaded_image,
              analysis_result |-> analysis_result,
              camera_active |-> camera_active,
              uploader_key |-> uploader_key]
  /\ reset_processed' = r.reset_processed
  /\ stale_file' = IF r.reset_processed THEN in.uploader.file
                   ELSE IF ev \in {"Upload", "Capture"} THEN "-"
                   ELSE stale_file

Init ==
  /\ theme = "light" /\ uploaded_image = None /\ analysis_result = ""
  /\ camera_active = FALSE /\ uploader_key = 0 /\ reset_triggered = FALSE
  /\ language = "unset"
  /\ uploader = [key |-> 0, file |-> None]
  /\ query = ""
  /\ page = [BlankPage EXCEPT !.reset_btn = TRUE, !.chat_box = TRUE]
  /\ calls = <<>>
  /\ event = "Load"
  /\ prev = [uploaded_image |-> None, analysis_result |-> "",
             camera_active |-> FALSE, uploader_key |-> 0]
  /\ reset_processed = FALSE
  /\ stale_file = "-"

ToggleTheme ==
  LET in == [NoInput EXCEPT !.toggled = TRUE]
  IN \E r \in Runs(Session, in) : Commit("ToggleTheme", in, r)

SelectLanguage ==
  \E l \in {LanguageOptions[i] : i \in DOMAIN LanguageOptions} :
    LET in == [NoInput EXCEPT !.language = l]
    IN \E r \in Runs(Session, in) : Commit("SelectLanguage", in, r)

Upload ==
  \E f \in Files :
    LET in == [NoInput EXCEPT !.uploader = [key |-> uploader_key, file |-> f]]
    IN \E r \in Runs(Session, in) : Commit("Upload", in, r)

\* the uploader's remove button
RemoveFile ==
  /\ uploader.file # None
  /\ LET in == [NoInput EXCEPT
                  !.uploader = [key |-> uploader_key, file |-> None]]
     IN \E r \in Runs(Session, in) : Commit("RemoveFile", in, r)

TakePhoto ==
  LET in == [NoInput EXCEPT !.take_photo = TRUE]
  IN \E r \in Runs(Session, in) : Commit("TakePhoto", in, r)

Capture ==
  /\ page.camera_shown
  /\ \E p \in Photos :
       LET in == [NoInput EXCEPT !.capture = p]
       IN \E r \in Runs(Session, in) : Commit("Capture", in, r)

Analyze ==
  /\ page.analyze_btn
  /\ \E o \in Outcomes :
       LET in == [NoInput EXCEPT !.analyze_btn = TRUE, !.outcome = o]
       IN \E r \in Runs(Session, in) : Commit("Analyze", in, r)

\* a click on the download button re-runs the script like any other widget
Download ==
  /\ page.report_shown
  /\ \E r \in Runs(Session, NoInput) : Commit("Download", NoInput, r)

Reset ==
  /\ page.reset_btn
  /\ uploader_key < MaxKey
  /\ \E r \in Runs(trigger_reset(Session), NoInput) :
       Commit("Reset", NoInput, r)

Ask ==
  /\ page.chat_box
  /\ \E q \in Questions :
       /\ q # query
       /\ LET in == [NoInput EXCEPT !.query = q]
          IN \E r \in Runs(Session, in) : Commit("Ask", in, r)

ClearQuery ==
  /\ page.chat_box
  /\ query # ""
  /\ LET in == [NoInput EXCEPT !.query = ""]
     IN \E r \in Runs(Session, in) : Commit("ClearQuery", in, r)

Next ==
  \/ ToggleTheme \/ SelectLanguage \/ Upload \/ RemoveFile \/ TakePhoto
  \/ Capture \/ Analyze \/ Download \/ Reset \/ Ask \/ ClearQuery

Spec == Init /\ [][Next]_vars

\* ------------------------------------------------- properties
AnalysisCalls == SelectSeq(calls, LAMBDA c : c.kind = "analysis")
ChatCalls == SelectSeq(calls, LAMBDA c : c.kind = "chat")
Directives(p) == SelectSeq(p, LAMBDA l : l.kind = "directive")
PhotoImages == {ImageOpen(p) : p \in Photos}

\* C1: once a run has executed the reset block and the forced re-render,
\* the cached image is absent, the analysis text is empty, the camera flag
\* is false and uploader_key is greater than before the event.
C1_ResetClears ==
  reset_processed =>
    /\ uploaded_image = None
    /\ analysis_result = ""
    /\ camera_active = FALSE
    /\ uploader_key > prev.uploader_key

C1_Witness ==
  /\ reset_processed
  /\ prev.uploaded_image # None
  /\ prev.analysis_result # ""
  /\ prev.camera_active

\* C2: when an analysis fails (serialisation or external call), the analysis
\* text and the cached image are what they were before the action and the
\* error shown is non-empty.
C2_FailureLeavesState ==
  (event = "Analyze" /\ page.error # <<>>) =>
    /\ analysis_result = prev.analysis_result
    /\ uploaded_image = prev.uploaded_image
    /\ Len(page.error) > 0

C4_NoSelectionNoDirective ==
  \A i \in DOMAIN AnalysisCalls :
    /\ language = "unset" => Directives(AnalysisCalls[i].prompt) = <<>>
    /\ language = "Telugu" =>
         Directives(AnalysisCalls[i].prompt) = <<Directive("Telugu")>>

\* C4 (amended): every submitted prompt has exactly one language directive;
\* it names the selectbox value, which is English while the user has made no
\* selection, and Telugu when Telugu is selected.
C4_OneDirective ==
  \A i \in DOMAIN AnalysisCalls :
    LET d == Directives(AnalysisCalls[i].prompt)
    IN /\ Len(d) = 1
       /\ language = "unset" => d[1].arg = "English"
       /\ language # "unset" => d[1].arg = language
       /\ language = "Telugu" => d[1].arg = "Telugu"

C4_Witness ==
  /\ event = "Analyze"
  /\ language = "unset"
  /\ Len(AnalysisCalls) = 1

\* C5: no failure escapes as an unhandled exception; the reset button and
\* the chat box are rendered at the end of every page run.
C5_ErrorsContained ==
  /\ ~page.exception
  /\ page.reset_btn
  /\ page.chat_box

\* C6: a page run makes exactly one analysis call if its event is an analysis
\* action and none otherwise, exactly one chat call if its event is a
\* submitted question and none otherwise.
C6_OneCallPerAction ==
  /\ Len(AnalysisCalls) = IF event = "Analyze" THEN 1 ELSE 0
  /\ Len(ChatCalls) = IF event = "Ask" THEN 1 ELSE 0

\* C7: when the external call returns text T, analysis_result is T, the
\* report shows T and the download is the text file with data T.
C7_ReportVerbatim ==
  \A i \in DOMAIN AnalysisCalls :
    AnalysisCalls[i].response.ok =>
      LET T == AnalysisCalls[i].response.text
      IN /\ analysis_result = T
         /\ page.report_shown
         /\ page.report = <<"<div class='main-card'>", T, "</div>">>
         /\ page.download = [data |-> T,
                             file_name |-> "plant_disease_analysis.txt",
                             mime |-> "text/plain"]

C7_Witness ==
  /\ event = "Analyze"
  /\ page.report_shown
  /\ prev.analysis_result # ""
  /\ prev.analysis_result # analysis_result

\* C8: after a reset and until a new upload or capture, the cached image is
\* absent (the file held by the old uploader is not loaded again) and
\* reset_triggered is false.
C8_NoResurrection ==
  stale_file # "-" =>
    /\ uploaded_image = None
    /\ reset_triggered = FALSE

C8_Witness ==
  /\ stale_file \in Files
  /\ event \in {"ToggleTheme", "TakePhoto", "SelectLanguage", "Ask"}
  /\ uploader_key > 0

\* C9: at the end of a page run, an absent cached image means empty analysis
\* text and no analyze button; every analysis call carries a cached image.
C9_ImageAbsent ==
  /\ uploaded_image = None =>
       /\ analysis_result = ""
       /\ ~page.analyze_btn
  /\ \A i \in DOMAIN AnalysisCalls : AnalysisCalls[i].data # PngBytes(None)

C9_Witness ==
  /\ uploaded_image = None
  /\ event = "Reset"
  /\ prev.analysis_result # ""
  /\ ~page.analyze_btn

\* C10: a capture leaves the photo cached with the camera flag false; the
\* photo stays cached over every run that is no upload, capture or reset,
\* and an analysis in such a state is submitted with the photo.
C10_CapturePersists ==
  [][/\ event' = "Capture" =>
          (uploaded_image' \in PhotoImages /\ ~camera_active')
     /\ (uploaded_image \in PhotoImages
         /\ event' \notin {"Upload", "Capture", "Reset"}) =>
          /\ uploaded_image' = uploaded_image
          /\ \A i \in DOMAIN AnalysisCalls' :
               AnalysisCalls'[i].data = PngBytes(uploaded_image)]_vars

====
